---- MODULE Spec2Model ----
(***************************************************************************)
(* Web Content Assistant: the chunker (splitTextIntoChunks), the           *)
(* VectorStore (initialize, getEmbedding, storeContent, queryContent),     *)
(* the summarize route and the query agent.                                *)
(*                                                                         *)
(* A text is a sequence of one-character strings.                          *)
(***************************************************************************)
EXTENDS Integers, Sequences, FiniteSets, TLC

VARIABLES
  ctext,       \* chunker run: the input text
  csize,       \* chunker run: the chunk size
  cchunks,     \* chunker run: the returned chunks
  cpc,         \* chunker run: "input" before the call, "done" after it
  indexState,  \* the backing index: "absent", "creating" (listed, not ready), "ready"
  createCalls, \* the number of createIndex calls issued
  store,       \* the index: record key -> record
  req,         \* each request: its position and its locals
  lastStore    \* per url, the storeContent call that returned last

\* ------------------------------------------------------------------------
\* Bounds of the chunker specification
\* ------------------------------------------------------------------------
MaxTextLen == 6

MaxChunkSize == 3

\* ------------------------------------------------------------------------
\* Characters
\* ------------------------------------------------------------------------
NL == "\n"

SP == " "

Whitespace == {SP, NL}

Punct == {".", "!", "?"}

Alphabet == {"a", ".", SP, NL}

\* ------------------------------------------------------------------------
\* splitTextIntoChunks (pure)
\* ------------------------------------------------------------------------

\* First index at or after i that does not hold a character of set cs.
RECURSIVE RunEnd(_, _, _)
RunEnd(t, i, cs) ==
  IF i <= Len(t) /\ t[i] \in cs THEN RunEnd(t, i + 1, cs) ELSE i

\* text.split(/\n\n+/): the pieces between maximal runs of two or more
\* newlines; a run at either end leaves an empty piece there.
RECURSIVE SectionsFrom(_, _, _, _)
SectionsFrom(t, i, cur, acc) ==
  IF i > Len(t) THEN Append(acc, cur)
  ELSE IF t[i] = NL /\ i + 1 <= Len(t) /\ t[i + 1] = NL
       THEN SectionsFrom(t, RunEnd(t, i, {NL}), <<>>, Append(acc, cur))
       ELSE SectionsFrom(t, i + 1, Append(cur, t[i]), acc)

SplitSections(t) == SectionsFrom(t, 1, <<>>, <<>>)

\* section.split(/(?<=[.!?])\s+/): a separator is a maximal whitespace run
\* that starts right after a sentence-ending punctuation mark.
RECURSIVE SentencesFrom(_, _, _, _)
SentencesFrom(t, i, cur, acc) ==
  IF i > Len(t) THEN Append(acc, cur)
  ELSE IF i > 1 /\ t[i - 1] \in Punct /\ t[i] \in Whitespace
       THEN SentencesFrom(t, RunEnd(t, i, Whitespace), <<>>, Append(acc, cur))
       ELSE SentencesFrom(t, i + 1, Append(cur, t[i]), acc)

SplitSentences(t) == SentencesFrom(t, 1, <<>>, <<>>)

\* The inner loop over the sentences of one oversized section: the state is
\* <<chunks, sectionChunk>>.
RECURSIVE PackSentences(_, _, _, _, _)
PackSentences(sentences, k, chunks, sectionChunk, chunkSize) ==
  IF k > Len(sentences)
  THEN IF sectionChunk # <<>> THEN Append(chunks, sectionChunk) ELSE chunks
  ELSE LET sentence == sentences[k] IN
       IF Len(sectionChunk \o sentence) <= chunkSize
       THEN PackSentences(sentences, k + 1, chunks,
              sectionChunk \o (IF sectionChunk # <<>> THEN <<SP>> ELSE <<>>)
                           \o sentence,
              chunkSize)
       ELSE PackSentences(sentences, k + 1,
              IF sectionChunk # <<>> THEN Append(chunks, sectionChunk)
                                     ELSE chunks,
              sentence, chunkSize)

\* The outer loop over the sections: the state is <<chunks, currentChunk>>.
\* The oversized-section branch pushes currentChunk and leaves it as it is.
RECURSIVE PackSections(_, _, _, _, _)
PackSections(sections, k, chunks, currentChunk, chunkSize) ==
  IF k > Len(sections)
  THEN IF currentChunk # <<>> THEN Append(chunks, currentChunk) ELSE chunks
  ELSE LET section == sections[k]
           flushed == IF currentChunk # <<>> THEN Append(chunks, currentChunk)
                                             ELSE chunks
       IN
       IF Len(currentChunk \o section) <= chunkSize
       THEN PackSections(sections, k + 1, chunks,
              currentChunk \o (IF currentChunk # <<>> THEN <<NL, NL>> ELSE <<>>)
                           \o section,
              chunkSize)
       ELSE IF Len(section) > chunkSize
            THEN PackSections(sections, k + 1,
                   PackSentences(SplitSentences(section), 1, flushed, <<>>,
                                 chunkSize),
                   currentChunk, chunkSize)
            ELSE PackSections(sections, k + 1, flushed, section, chunkSize)

splitTextIntoChunks(text, chunkSize) ==
  PackSections(SplitSections(text), 1, <<>>, <<>>, chunkSize)

\* ------------------------------------------------------------------------
\* Helpers of the chunker properties
\* ------------------------------------------------------------------------
RECURSIVE Flatten(_)
Flatten(ss) == IF ss = <<>> THEN <<>> ELSE Head(ss) \o Flatten(Tail(ss))

NonWhitespace(t) == SelectSeq(t, LAMBDA c : c \notin Whitespace)

RECURSIVE TextsOfLen(_)
TextsOfLen(n) ==
  IF n = 0 THEN {<<>>}
  ELSE {Append(t, c) : t \in TextsOfLen(n - 1), c \in Alphabet}

AllTexts == UNION {TextsOfLen(n) : n \in 0..MaxTextLen}

Range(s) == {s[i] : i \in DOMAIN s}

\* ------------------------------------------------------------------------
\* Bounds and constants of the system model
\* ------------------------------------------------------------------------
\* The chunk size storeContent uses (500 in the source), scaled to the
\* model's texts.
StoreChunkSize == 3

MaxMatches == 2

MaxScore == 2

Dimension == 768

TopK == 5

\* Two requests in flight at once.
Procs == {1, 2}

Urls == {"u1"}

\* ------------------------------------------------------------------------
\* Vectors: a vector is known by its length and by whether it is all zero
\* ------------------------------------------------------------------------
ZeroVector == [len |-> Dimension, zero |-> TRUE]

\* What the embedding service may send as embedding.values: the code takes
\* it as it comes, whatever its length.
ServiceVectors ==
  {[len |-> Dimension, zero |-> FALSE], [len |-> Dimension - 1, zero |-> FALSE]}

\* The embedding service's answers: values, a non-success status, a body
\* without embedding.values, a failed fetch.
ServiceReplies ==
  {[kind |-> "values", values |-> v] : v \in ServiceVectors}
    \cup {[kind |-> k, values |-> ZeroVector] :
            k \in {"http_error", "malformed", "network_error"}}

NoReply == [kind |-> "not_called", values |-> ZeroVector]

\* !text || text.trim().length === 0
IsBlank(text) == \A i \in DOMAIN text : text[i] \in Whitespace

\* Mutant: the service is called for blank text too.
RepliesForAlwaysCalled(text) == ServiceReplies

\* The replies a call of getEmbedding(text) can meet: the service is not
\* called for blank text.
RepliesFor(text) == IF IsBlank(text) THEN {NoReply} ELSE ServiceReplies

\* Mutant: no zero-vector fallback, a failed call hands on an empty vector.
getEmbeddingNoFallback(text, reply) ==
  IF IsBlank(text) THEN ZeroVector
  ELSE IF reply.kind = "values" THEN reply.values
       ELSE [len |-> 0, zero |-> FALSE]

getEmbedding(text, reply) ==
  IF IsBlank(text) THEN ZeroVector
  ELSE IF reply.kind = "values" THEN reply.values
       ELSE ZeroVector

\* ------------------------------------------------------------------------
\* Contents. A facet string is a sequence of tokens, "" is <<>>; a list is
\* a sequence of strings.
\* ------------------------------------------------------------------------
RECURSIVE Join(_)
Join(list) ==
  IF list = <<>> THEN <<>>
  ELSE IF Len(list) = 1 THEN list[1]
       ELSE list[1] \o <<", ">> \o Join(Tail(list))

NoTopics == <<"No topics available">>

NoKeyPoints == <<"No key points available">>

NoEntities == <<"No entities available">>

Neutral == <<"neutral">>

Or(s, default) == IF s # <<>> THEN s ELSE default

Sections == <<"topics", "keypoints", "sentiment", "entities">>

\* metadataItems[j].text
ItemText(content, j) ==
  CASE j = 1 -> Or(Join(content.topics), NoTopics)
    [] j = 2 -> Or(Join(content.keyPoints), NoKeyPoints)
    [] j = 3 -> Or(content.sentiment, Neutral)
    [] j = 4 -> Or(Join(content.entities), NoEntities)

\* The condition around the facet block.
HasMetadata(content) ==
  \/ Len(content.topics) > 0
  \/ Len(content.keyPoints) > 0
  \/ content.sentiment # <<>>
  \/ Len(content.entities) > 0

\* Mutant: a facet is written whenever its input value is non-empty.
ItemStoredWhenNonEmpty(content, j) ==
  CASE j = 1 -> Len(content.topics) > 0
    [] j = 2 -> Len(content.keyPoints) > 0
    [] j = 3 -> content.sentiment # <<>>
    [] j = 4 -> Len(content.entities) > 0

\* The condition inside the facet loop ("Skip empty texts").
ItemStored(content, j) ==
  LET text == ItemText(content, j) IN
  /\ text # <<>>
  /\ text # NoTopics
  /\ text # NoKeyPoints
  /\ text # NoEntities
  /\ text # Neutral

\* Mutant: the loop writes every facet, no gate and no skip.
NextFacetNoSkip(content, j) == IF j > 4 THEN 5 ELSE j

\* The first facet at or after j that the loop writes, 5 when none is left.
RECURSIVE NextFacet(_, _)
NextFacet(content, j) ==
  IF j > 4 \/ ~HasMetadata(content) THEN 5
  ELSE IF ItemStored(content, j) THEN j
       ELSE NextFacet(content, j + 1)

TextShort == <<"a">>

TextTwo == <<"b", "b", NL, NL, "a", "a">>

TextSentences == <<"a", "a", ".", SP, "a", ".">>

NoMetadata ==
  [topics |-> <<>>, keyPoints |-> <<>>, sentiment |-> <<>>, entities |-> <<>>]

MakeContent(title, mainText, m) ==
  [title |-> title, description |-> "", mainText |-> mainText,
   topics |-> m.topics, keyPoints |-> m.keyPoints,
   sentiment |-> m.sentiment, entities |-> m.entities]

\* What the summarize route can pass: extractContent leaves a trimmed text
\* with single spaces, and the route passes empty facets.
RouteContents ==
  {MakeContent("T", t, NoMetadata) : t \in {TextShort, TextSentences}}

\* What a caller of the VectorStore can pass.
ApiContents ==
  { MakeContent("T", TextTwo,
      [topics |-> << <<"ai">>, <<"web">> >>, keyPoints |-> <<>>,
       sentiment |-> <<"positive">>, entities |-> <<>>]),
    MakeContent("T", TextShort, NoMetadata),
    MakeContent("T", TextShort,
      [topics |-> << <<>> >>, keyPoints |-> << NoKeyPoints >>,
       sentiment |-> Neutral, entities |-> << <<"acme">> >>]) }

EmptyContent == MakeContent("", <<>>, NoMetadata)

Questions == {<<"q">>, <<SP>>}

\* ------------------------------------------------------------------------
\* Record identity
\* ------------------------------------------------------------------------
\* Mutant: an id that is not stable across calls.
MainKeyUnstable(url, i) == <<url, "main", i + Cardinality(DOMAIN store)>>

\* `${url}-main-${i}`
MainKey(url, i) == <<url, "main", i>>

\* `${url}-topics`, ...
FacetKey(url, j) == <<url, Sections[j]>>

Chunks(content) == splitTextIntoChunks(content.mainText, StoreChunkSize)

\* Mutant: every chunk record carries the first chunk's text.
MainRecordFirstText(content, i, values) ==
  [values |-> values, title |-> content.title, type |-> "content",
   text |-> Chunks(content)[1]]

MainRecord(content, i, values) ==
  [values |-> values, title |-> content.title, type |-> "content",
   text |-> Chunks(content)[i + 1]]

FacetRecord(content, j, values) ==
  [values |-> values, title |-> content.title, type |-> "metadata",
   text |-> ItemText(content, j)]

\* index.upsert: insert or overwrite by key.
Upsert(s, key, rec) ==
  [k \in DOMAIN s \cup {key} |-> IF k = key THEN rec ELSE s[k]]

EmptyStore == [k \in {} |-> ZeroVector]

\* ------------------------------------------------------------------------
\* State
\* ------------------------------------------------------------------------
cvars == <<ctext, csize, cchunks, cpc>>

svars == <<indexState, createCalls, store, req, lastStore>>

vars == <<ctext, csize, cchunks, cpc, indexState, createCalls, store, req, lastStore>>

IdleReq ==
  [pc |-> "idle", kind |-> "none", url |-> "none", content |-> EmptyContent,
   question |-> <<>>, i |-> 0, emb |-> ZeroVector, reply |-> NoReply,
   results |-> <<>>, response |-> "none",
   \* history: what the request has done and met
   did |-> {}, initFailed |-> "no", writeFailed |-> FALSE,
   overlapped |-> FALSE, raised |-> "none",
   \* history: the keys this call of storeContent has written, what
   \* index.query answered, what queryContent returned and what the
   \* completion call met
   wrote |-> {}, qreply |-> "none", retrieved |-> "no", creply |-> "none"]

NoStore ==
  [content |-> EmptyContent, called |-> FALSE, failed |-> FALSE,
   overlapped |-> FALSE]

ChunkIdle ==
  /\ ctext = <<>>
  /\ csize = 1
  /\ cchunks = <<>>
  /\ cpc = "idle"

SysInit ==
  /\ indexState \in {"absent", "ready"}
  /\ createCalls = 0
  /\ store = EmptyStore
  /\ req = [p \in Procs |-> IdleReq]
  /\ lastStore = [u \in Urls |-> NoStore]

Init == ChunkIdle /\ SysInit

\* ------------------------------------------------------------------------
\* Control flow shared by the callers of the VectorStore
\* ------------------------------------------------------------------------
\* The positions inside storeContent.
StorePcs == {"s_embed", "s_upsert", "f_embed", "f_upsert", "s_ret"}

\* Mutant: the query is issued without the embedding step.
AfterInitSkipEmbedding(r) == IF r.kind = "query" THEN "q_query" ELSE "store"

\* Where a request goes on when initialize() has returned.
AfterInit(r) == IF r.kind = "query" THEN "q_embed" ELSE "store"

\* An exception leaving initialize or storeContent reaches the caller: the
\* route's inner try/catch goes on to the response, queryAgent's catch
\* answers with the apology, any other caller sees it raised.
Raise(r, what) ==
  CASE r.kind = "route" -> [r EXCEPT !.pc = "respond", !.raised = what]
    [] r.kind = "query" -> [r EXCEPT !.pc = "done", !.response = "apology"]
    [] OTHER -> [r EXCEPT !.pc = "done", !.response = "raised",
                          !.raised = what]

Set(p, r) == req' = [req EXCEPT ![p] = r]

\* ------------------------------------------------------------------------
\* The requests
\* ------------------------------------------------------------------------
\* POST of the summarize route: agent.run() fetches, extracts and
\* summarises; a failure there answers 500 before any indexing.
RouteStart(p) ==
  /\ req[p].pc = "idle"
  /\ \E u \in Urls, c \in RouteContents, runOk \in BOOLEAN :
       Set(p, IF runOk
              THEN [req[p] EXCEPT !.kind = "route", !.url = u, !.content = c,
                                  !.pc = "list", !.did = {"run"}]
              ELSE [req[p] EXCEPT !.kind = "route", !.url = u,
                                  !.pc = "done", !.response = "error500"])
  /\ UNCHANGED <<cvars, indexState, createCalls, store, lastStore>>

\* A caller of the VectorStore: initialize(), then storeContent(url, content).
ApiStart(p) ==
  /\ req[p].pc = "idle"
  /\ \E u \in Urls, c \in ApiContents :
       Set(p, [req[p] EXCEPT !.kind = "api", !.url = u, !.content = c,
                             !.pc = "list"])
  /\ UNCHANGED <<cvars, indexState, createCalls, store, lastStore>>

QueryStart(p) ==
  /\ req[p].pc = "idle"
  /\ \E q \in Questions :
       Set(p, [req[p] EXCEPT !.kind = "query", !.question = q, !.pc = "list"])
  /\ UNCHANGED <<cvars, indexState, createCalls, store, lastStore>>

\* ------------------------------------------------------------------------
\* VectorStore.initialize
\* ------------------------------------------------------------------------
\* listIndexes() failed: nothing catches it inside initialize.
ListFailed(r) == Raise([r EXCEPT !.initFailed = "list"], "initialize")

\* indexExists: the index is listed, ready or not.
ListOk(r) ==
  IF indexState # "absent"
  THEN [r EXCEPT !.pc = AfterInit(r), !.did = @ \cup {"inited"}]
  ELSE [r EXCEPT !.pc = "create"]

ListIndexes(p) ==
  /\ req[p].pc = "list"
  /\ \/ Set(p, ListOk(req[p]))
     \/ Set(p, ListFailed(req[p]))
  /\ UNCHANGED <<cvars, indexState, createCalls, store, lastStore>>

\* Mutant: the catch logs and does not rethrow, initialize goes on.
CreateFailedSwallowed(r, why) == [r EXCEPT !.initFailed = why, !.pc = "wait"]

\* catch (error) { console.error(...); throw error; }: why is "create" for
\* a failure of the backend, "exists" for its refusal of a name it holds.
CreateFailed(r, why) == Raise([r EXCEPT !.initFailed = why], "initialize")

\* createIndex: the backend creates an absent index, or fails; it refuses
\* a name it already holds.
CreateIndex(p) ==
  /\ req[p].pc = "create"
  /\ createCalls' = createCalls + 1
  /\ LET r == [req[p] EXCEPT !.did = @ \cup {"create"}] IN
     \/ /\ indexState = "absent"
        /\ indexState' = "creating"
        /\ Set(p, [r EXCEPT !.pc = "wait"])
     \/ /\ indexState = "absent"
        /\ UNCHANGED indexState
        /\ Set(p, CreateFailed(r, "create"))
     \/ /\ indexState # "absent"
        /\ UNCHANGED indexState
        /\ Set(p, CreateFailed(r, "exists"))
  /\ UNCHANGED <<cvars, store, lastStore>>

\* The 30 s timer after createIndex: it ends whatever the index's state.
WaitTimer(p) ==
  /\ req[p].pc = "wait"
  /\ Set(p, [req[p] EXCEPT !.pc = AfterInit(req[p]), !.did = @ \cup {"inited"}])
  /\ UNCHANGED <<cvars, indexState, createCalls, store, lastStore>>

\* The backend finishes creating the index, at a time of its own.
BackendReady ==
  /\ indexState = "creating"
  /\ indexState' = "ready"
  /\ UNCHANGED <<cvars, createCalls, store, req, lastStore>>

\* ------------------------------------------------------------------------
\* VectorStore.storeContent
\* ------------------------------------------------------------------------
\* From facet j on: the next facet the loop writes, or the return.
ToFacets(r, j) ==
  LET n == NextFacet(r.content, j) IN
  IF n <= 4
  THEN [r EXCEPT !.pc = "f_embed", !.i = n, !.emb = ZeroVector, !.reply = NoReply]
  ELSE [r EXCEPT !.pc = "s_ret", !.i = 0, !.emb = ZeroVector, !.reply = NoReply]

\* The calls of storeContent for the same url that are under way.
Storing(u) == {q \in Procs : req[q].url = u /\ req[q].pc \in StorePcs}

\* const chunks = splitTextIntoChunks(content.mainText); i = 0
StoreBegin(p) ==
  /\ req[p].pc = "store"
  /\ LET r == req[p]
         others == Storing(r.url) \ {p}
         mine == IF Len(Chunks(r.content)) > 0
                 THEN [r EXCEPT !.pc = "s_embed", !.i = 0]
                 ELSE ToFacets(r, 1)
     IN req' = [q \in Procs |->
                  IF q = p THEN [mine EXCEPT !.overlapped = (others # {})]
                  ELSE IF q \in others THEN [req[q] EXCEPT !.overlapped = TRUE]
                  ELSE req[q]]
  /\ UNCHANGED <<cvars, indexState, createCalls, store, lastStore>>

\* What a call of getEmbedding leaves in the request.
Embedded(r, text, reply, pc) ==
  [r EXCEPT !.emb = getEmbedding(text, reply), !.reply = reply, !.pc = pc,
            !.did = IF reply.kind = "not_called" THEN @ ELSE @ \cup {"embed"}]

\* const chunkEmbedding = await this.getEmbedding(chunks[i])
EmbedChunk(p) ==
  /\ req[p].pc = "s_embed"
  /\ LET text == Chunks(req[p].content)[req[p].i + 1] IN
     \E reply \in RepliesFor(text) :
       Set(p, Embedded(req[p], text, reply, "s_upsert"))
  /\ UNCHANGED <<cvars, indexState, createCalls, store, lastStore>>

\* Mutant: the catch rethrows to the caller of storeContent.
StoreCatchRethrow(r) ==
  Raise([r EXCEPT !.writeFailed = TRUE, !.i = 0, !.emb = ZeroVector,
                  !.reply = NoReply], "storeContent")

\* catch (error) { console.error(...) }: the rest of the call is skipped
\* and storeContent returns.
StoreCatch(r) ==
  [r EXCEPT !.pc = "s_ret", !.writeFailed = TRUE, !.i = 0,
            !.emb = ZeroVector, !.reply = NoReply]

\* Mutant: the facet block follows the first chunk written.
AfterMainUpsertFacetsEarly(r) == ToFacets(r, 1)

\* i++ and the loop condition, then the facet block.
AfterMainUpsert(r) ==
  IF r.i + 1 < Len(Chunks(r.content))
  THEN [r EXCEPT !.pc = "s_embed", !.i = @ + 1, !.emb = ZeroVector,
                 !.reply = NoReply]
  ELSE ToFacets(r, 1)

\* await index.upsert([{id: `${url}-main-${i}`, ...}]): the write succeeds
\* on a ready index, or fails.
UpsertChunk(p) ==
  /\ req[p].pc = "s_upsert"
  /\ LET r == [req[p] EXCEPT !.did = @ \cup {"upsert"}] IN
     \/ /\ indexState = "ready"
        /\ store' = Upsert(store, MainKey(r.url, r.i),
                           MainRecord(r.content, r.i, r.emb))
        /\ Set(p, AfterMainUpsert(
                    [r EXCEPT !.wrote = @ \cup {MainKey(r.url, r.i)}]))
     \/ /\ UNCHANGED store
        /\ Set(p, StoreCatch(r))
  /\ UNCHANGED <<cvars, indexState, createCalls, lastStore>>

\* const embedding = await this.getEmbedding(item.text)
EmbedFacet(p) ==
  /\ req[p].pc = "f_embed"
  /\ LET text == ItemText(req[p].content, req[p].i) IN
     \E reply \in RepliesFor(text) :
       Set(p, Embedded(req[p], text, reply, "f_upsert"))
  /\ UNCHANGED <<cvars, indexState, createCalls, store, lastStore>>

\* await index.upsert([{id: item.id, ...}])
UpsertFacet(p) ==
  /\ req[p].pc = "f_upsert"
  /\ LET r == [req[p] EXCEPT !.did = @ \cup {"upsert"}] IN
     \/ /\ indexState = "ready"
        /\ store' = Upsert(store, FacetKey(r.url, r.i),
                           FacetRecord(r.content, r.i, r.emb))
        /\ Set(p, ToFacets([r EXCEPT !.wrote = @ \cup {FacetKey(r.url, r.i)}],
                            r.i + 1))
     \/ /\ UNCHANGED store
        /\ Set(p, StoreCatch(r))
  /\ UNCHANGED <<cvars, indexState, createCalls, lastStore>>

\* storeContent returns to its caller: the route goes on to its response.
StoreReturn(p) ==
  /\ req[p].pc = "s_ret"
  /\ LET r == req[p] IN
     /\ lastStore' = [lastStore EXCEPT ![r.url] =
                        [content |-> r.content, called |-> TRUE,
                         failed |-> r.writeFailed,
                         overlapped |-> r.overlapped]]
     /\ Set(p, IF r.kind = "route"
               THEN [r EXCEPT !.pc = "respond", !.did = @ \cup {"stored"}]
               ELSE [r EXCEPT !.pc = "done", !.response = "returned",
                              !.did = @ \cup {"stored"}])
  /\ UNCHANGED <<cvars, indexState, createCalls, store>>

\* return NextResponse.json({summary: result.summary, ...})
RouteRespond(p) ==
  /\ req[p].pc = "respond"
  /\ Set(p, [req[p] EXCEPT !.pc = "done", !.response = "summary"])
  /\ UNCHANGED <<cvars, indexState, createCalls, store, lastStore>>

\* ------------------------------------------------------------------------
\* VectorStore.queryContent and queryAgent
\* ------------------------------------------------------------------------
Min(a, b) == IF a <= b THEN a ELSE b

RECURSIVE SeqsUpTo(_, _)
SeqsUpTo(S, n) ==
  IF n = 0 THEN {<<>>}
  ELSE SeqsUpTo(S, n - 1)
         \cup {Append(m, x) : m \in {y \in SeqsUpTo(S, n - 1) : Len(y) = n - 1},
                              x \in S}

\* What index.query can answer: up to topK of the stored records, each
\* with a score, in the backend's order; or a body without matches.
QueryReplies ==
  LET n == Min(Min(TopK, MaxMatches), Cardinality(DOMAIN store)) IN
  {[has |-> FALSE, matches |-> <<>>]}
    \cup {[has |-> TRUE, matches |-> m] :
            m \in SeqsUpTo([score : 0..MaxScore], n)}

\* Mutant: without the "|| []", a body without matches makes map throw.
queryContentNoDefault(reply) ==
  IF reply.has
  THEN [ok |-> TRUE,
        results |-> [k \in DOMAIN reply.matches |->
                       [score |-> reply.matches[k].score]]]
  ELSE [ok |-> FALSE, results |-> <<>>]

\* (results.matches || []).map(match => ({score: match.score || 0, ...})):
\* the matches in the order the backend gave them; ok is whether the call
\* returned.
queryContent(reply) ==
  IF reply.has
  THEN [ok |-> TRUE,
        results |-> [k \in DOMAIN reply.matches |->
                       [score |-> reply.matches[k].score]]]
  ELSE [ok |-> TRUE, results |-> <<>>]

\* const queryEmbedding = await this.getEmbedding(query)
QueryEmbed(p) ==
  /\ req[p].pc = "q_embed"
  /\ \E reply \in RepliesFor(req[p].question) :
       Set(p, Embedded(req[p], req[p].question, reply, "q_query"))
  /\ UNCHANGED <<cvars, indexState, createCalls, store, lastStore>>

\* Mutant: the completion call is made whatever the number of results.
AfterQueryAlwaysGenerate(r, results) ==
  [r EXCEPT !.pc = "generate", !.results = results,
            !.retrieved = IF Len(results) = 0 THEN "zero" ELSE "some"]

\* Step 3 of queryAgent: no results, the fixed refusal; else the context is
\* built from the results in their order and the completion call follows.
AfterQuery(r, results) ==
  IF Len(results) = 0
  THEN [r EXCEPT !.pc = "done", !.response = "refusal", !.retrieved = "zero"]
  ELSE [r EXCEPT !.pc = "generate", !.results = results, !.retrieved = "some"]

\* await index.query({vector, topK, includeMetadata: true}): the backend
\* answers on a ready index, or the call fails.
QueryIndex(p) ==
  /\ req[p].pc = "q_query"
  /\ LET r == [req[p] EXCEPT !.did = @ \cup {"query"}, !.emb = ZeroVector,
                             !.reply = NoReply] IN
     \/ /\ indexState = "ready"
        /\ \E reply \in QueryReplies :
             LET out == queryContent(reply)
                 a == [r EXCEPT !.qreply = IF reply.has THEN "matches"
                                                        ELSE "no_field"]
             IN Set(p, IF out.ok THEN AfterQuery(a, out.results)
                       ELSE Raise(a, "queryContent"))
     \/ Set(p, Raise([r EXCEPT !.qreply = "failed"], "queryContent"))
  /\ UNCHANGED <<cvars, indexState, createCalls, store, lastStore>>

\* What the completion call can meet: a body with
\* choices[0].message.content, a non-success status, a body without
\* choices[0].message, a body whose message has no content, a failed fetch.
CompletionReplies ==
  {"ok", "http_error", "no_choices", "no_content", "network_error"}

\* const answer = data.choices[0].message.content; return { answer }: a
\* message without content gives the answer undefined, every throw goes to
\* the catch.
Completed(r, c) ==
  CASE c = "ok" -> [r EXCEPT !.pc = "done", !.response = "completion"]
    [] c = "no_content" -> [r EXCEPT !.pc = "done", !.response = "undefined"]
    [] OTHER -> Raise(r, "completion")

\* The completion call and what queryAgent makes of its answer.
Generate(p) ==
  /\ req[p].pc = "generate"
  /\ \E c \in CompletionReplies :
       Set(p, Completed([req[p] EXCEPT !.did = @ \cup {"complete"},
                                       !.results = <<>>, !.creply = c], c))
  /\ UNCHANGED <<cvars, indexState, createCalls, store, lastStore>>

\* ------------------------------------------------------------------------
\* The system
\* ------------------------------------------------------------------------
Next ==
  \/ \E p \in Procs :
       \/ RouteStart(p)
       \/ ApiStart(p)
       \/ QueryStart(p)
       \/ ListIndexes(p)
       \/ CreateIndex(p)
       \/ WaitTimer(p)
       \/ StoreBegin(p)
       \/ EmbedChunk(p)
       \/ UpsertChunk(p)
       \/ EmbedFacet(p)
       \/ UpsertFacet(p)
       \/ StoreReturn(p)
       \/ RouteRespond(p)
       \/ QueryEmbed(p)
       \/ QueryIndex(p)
       \/ Generate(p)
  \/ BackendReady

Spec == Init /\ [][Next]_vars

\* ------------------------------------------------------------------------
\* The chunker applied to every bounded input
\* ------------------------------------------------------------------------
SysIdle ==
  /\ indexState = "absent"
  /\ createCalls = 0
  /\ store = EmptyStore
  /\ req = [p \in Procs |-> IdleReq]
  /\ lastStore = [u \in Urls |-> NoStore]

ChunkInit ==
  /\ ctext \in AllTexts
  /\ csize \in 1..MaxChunkSize
  /\ cchunks = <<>>
  /\ cpc = "input"
  /\ SysIdle

ChunkCall ==
  /\ cpc = "input"
  /\ cchunks' = splitTextIntoChunks(ctext, csize)
  /\ cpc' = "done"
  /\ UNCHANGED <<ctext, csize, svars>>

ChunkNext == ChunkCall

SpecChunk == ChunkInit /\ [][ChunkNext]_vars

\* C1: the chunks cover the input exactly once and in order: the
\* non-whitespace characters of the chunks, concatenated in the order
\* returned, are the non-whitespace characters of the input.
ChunkCoverage ==
  cpc = "done" => NonWhitespace(Flatten(cchunks)) = NonWhitespace(ctext)

\* C2: every returned chunk has length <= S, except a chunk that is one
\* single sentence itself longer than S.
ChunkSizeBound ==
  cpc = "done" =>
    \A i \in DOMAIN cchunks :
      \/ Len(cchunks[i]) <= csize
      \/ \E s \in Range(SplitSections(ctext)) :
           cchunks[i] \in Range(SplitSentences(s))

\* ------------------------------------------------------------------------
\* Helpers of the store properties
\* ------------------------------------------------------------------------
KeysUnder(u) == {k \in DOMAIN store : k[1] = u}

MainOrdinals(c) == 0..(Len(Chunks(c)) - 1)

StoredFacets(c) == {j \in 1..4 : HasMetadata(c) /\ ItemStored(c, j)}

\* The keys one complete storeContent(u, c) writes.
ContentKeys(u, c) ==
  {MainKey(u, i) : i \in MainOrdinals(c)}
    \cup {FacetKey(u, j) : j \in StoredFacets(c)}

\* Request p issues an upsert in this step.
Writes(p) ==
  /\ req[p].pc \in {"s_upsert", "f_upsert"}
  /\ req'[p] # req[p]

\* The call of storeContent that returned last for p's url had p's content.
SameAsLast(p) ==
  /\ lastStore[req[p].url].called
  /\ lastStore[req[p].url].content = req[p].content

\* No call of storeContent for u is under way, and the last one ran alone
\* and met no write failure.
LatestComplete(u) ==
  /\ lastStore[u].called
  /\ ~lastStore[u].failed
  /\ ~lastStore[u].overlapped
  /\ Storing(u) = {}

Returned(p) == "stored" \in req[p].did

ExactReplacement ==
  \A u \in Urls :
    LatestComplete(u) => KeysUnder(u) = ContentKeys(u, lastStore[u].content)

\* C4 (amended): once the latest call for a sourceId has completed with no
\* write failure, every main chunk and every stored facet of its content
\* has its record under the sourceId, holding that content's text; records
\* under other keys are left as they were.
LatestRecordsStored ==
  \A u \in Urls :
    LatestComplete(u) =>
      LET c == lastStore[u].content IN
      /\ ContentKeys(u, c) \subseteq KeysUnder(u)
      /\ \A i \in MainOrdinals(c) :
           /\ store[MainKey(u, i)].text = Chunks(c)[i + 1]
           /\ store[MainKey(u, i)].title = c.title
      /\ \A j \in StoredFacets(c) :
           store[FacetKey(u, j)].text = ItemText(c, j)

\* C4 witness: the latest call wrote two chunks over an earlier record and
\* the store holds its texts.
ReingestedOverEarlier ==
  \E u \in Urls :
    /\ LatestComplete(u)
    /\ Len(Chunks(lastStore[u].content)) >= 2
    /\ \E p \in Procs :
         /\ Returned(p)
         /\ req[p].url = u
         /\ req[p].content # lastStore[u].content
         /\ "upsert" \in req[p].did

EmbeddingFailures == {"http_error", "malformed", "network_error"}

BestEffortIndexing ==
  \A p \in Procs :
    /\ req[p].raised # "storeContent"
    /\ req[p].kind = "route" /\ req[p].pc = "done" /\ "run" \in req[p].did =>
         req[p].response = "summary"

\* C7 witness: a route request answered with the summary although an
\* upsert of its storeContent failed.
SummaryDespiteWriteFailure ==
  \E p \in Procs :
    /\ req[p].kind = "route"
    /\ req[p].pc = "done"
    /\ req[p].writeFailed
    /\ req[p].response = "summary"

\* C8: as long as the backend has failed no listIndexes and no createIndex
\* call, no call of initialize has raised and createIndex has been issued
\* at most once.
InitializeIdempotent ==
  (\A p \in Procs : req[p].initFailed \notin {"list", "create"}) =>
    /\ createCalls <= 1
    /\ \A p \in Procs : req[p].initFailed = "no"

\* C9: when initialize() has returned without raising, the index is ready.
InitializedMeansReady ==
  \A p \in Procs : "inited" \in req[p].did => indexState = "ready"

\* C10: after a failure of listIndexes or createIndex the request makes no
\* embedding call, no upsert and no index query, storeContent is not
\* entered, and the query agent answers with the apology.
InitFailureStopsRequest ==
  \A p \in Procs :
    req[p].initFailed # "no" =>
      /\ req[p].pc \in {"respond", "done"}
      /\ req[p].did \cap {"inited", "embed", "upsert", "query", "complete",
                          "stored"} = {}
      /\ req[p].kind = "query" => req[p].response = "apology"
      /\ req[p].kind # "query" => req[p].raised = "initialize"

\* C10 witness: a query answered with the apology and a route request
\* answered with the summary, each after its initialize() failed.
BothStoppedByInitFailure ==
  \E p, q \in Procs :
    /\ req[p].kind = "query" /\ req[p].initFailed = "create"
    /\ req[p].response = "apology"
    /\ req[q].kind = "route" /\ req[q].initFailed = "list"
    /\ req[q].response = "summary"

\* ------------------------------------------------------------------------
\* Helpers of the query properties
\* ------------------------------------------------------------------------
Descending(results) ==
  \A a, b \in DOMAIN results : a < b => results[a].score >= results[b].score

\* C11: the matches the answer context is built from are at most topK and
\* in descending score order: citation [1] is the highest-scoring match,
\* whatever the order the backend returned them in.
CitationsByDescendingScore ==
  \A p \in Procs :
    req[p].pc = "generate" =>
      /\ Len(req[p].results) <= TopK
      /\ Descending(req[p].results)

\* C12: when retrieval returned zero matches, queryAgent answers with the
\* fixed refusal and the completion service is not invoked in that query.
RefusalWithoutCompletion ==
  \A p \in Procs :
    req[p].retrieved = "zero" =>
      /\ req[p].pc = "done"
      /\ req[p].response = "refusal"
      /\ "complete" \notin req[p].did
      /\ req[p].creply = "none"

\* C12 witness: the backend answered a query on a non-empty index with an
\* empty list of matches and the query was refused.
ZeroMatchesRefused ==
  \E p \in Procs :
    /\ req[p].retrieved = "zero"
    /\ req[p].qreply = "matches"
    /\ req[p].response = "refusal"
    /\ DOMAIN store # {}

Answers == {"completion", "refusal", "apology"}

CompletionFailures == {"http_error", "no_choices", "no_content", "network_error"}

\* A stage of query p has failed.
QueryFailed(p) ==
  \/ req[p].initFailed # "no"
  \/ req[p].qreply = "failed"
  \/ req[p].creply \in CompletionFailures

\* C13: a queryAgent invocation that has ended returned an answer string
\* (the completion output, the refusal or the apology) and raised nothing,
\* and after a failure at any stage the answer is the apology.
QueryAlwaysAnswers ==
  \A p \in Procs :
    req[p].kind = "query" /\ req[p].pc = "done" =>
      /\ req[p].response \in Answers
      /\ req[p].raised = "none"
      /\ QueryFailed(p) => req[p].response = "apology"

\* The steps of one query: initialize (list, create, wait), the embedding,
\* the index query, the completion call, the answer.
QueryTransitions ==
  { <<"idle", "list">>, <<"list", "create">>, <<"list", "q_embed">>,
    <<"list", "done">>, <<"create", "wait">>, <<"create", "done">>,
    <<"wait", "q_embed">>, <<"q_embed", "q_query">>,
    <<"q_query", "generate">>, <<"q_query", "done">>,
    <<"generate", "done">> }

\* C14: within one query the stages come in the order Init, Embedding,
\* Retrieving, then NoContext or HasContext and Generating, then Answered:
\* the index is queried only after the embedding step, the completion
\* service is invoked at most once and only after retrieval returned at
\* least one match, and nothing happens after Answered.
StageOrder ==
  [][\A p \in Procs :
       req'[p].kind = "query" /\ req'[p] # req[p] =>
         /\ <<req[p].pc, req'[p].pc>> \in QueryTransitions
         /\ req'[p].pc = "generate" =>
              /\ req'[p].retrieved = "some"
              /\ Len(req'[p].results) >= 1
              /\ "query" \in req'[p].did
         /\ "complete" \in req'[p].did =>
              /\ "complete" \notin req[p].did
              /\ req[p].pc = "generate"
              /\ req'[p].pc = "done"]_vars

\* C14 witness: a query went through every stage and answered with the
\* completion output.
QueryAnsweredFromContext ==
  \E p \in Procs :
    /\ req[p].kind = "query"
    /\ req[p].pc = "done"
    /\ req[p].response = "completion"
    /\ req[p].did = {"inited", "embed", "query", "complete"}

\* ------------------------------------------------------------------------
\* Helpers of the facet and write-order properties
\* ------------------------------------------------------------------------
\* The facet's input value is non-empty: a non-empty list, a non-empty
\* string for the sentiment.
FacetNonEmpty(c, j) ==
  CASE j = 1 -> c.topics # <<>>
    [] j = 2 -> c.keyPoints # <<>>
    [] j = 3 -> c.sentiment # <<>>
    [] j = 4 -> c.entities # <<>>

\* The facet's value as text: the list joined with ", ", the sentiment.
FacetValueText(c, j) ==
  CASE j = 1 -> Join(c.topics)
    [] j = 2 -> Join(c.keyPoints)
    [] j = 3 -> c.sentiment
    [] j = 4 -> Join(c.entities)

Placeholders == {NoTopics, NoKeyPoints, NoEntities, Neutral}

WroteFacet(p, j) == FacetKey(req[p].url, j) \in req[p].wrote

FacetsWritten(p) == {j \in 1..4 : WroteFacet(p, j)}

MainWritten(p) ==
  {i \in MainOrdinals(req[p].content) : MainKey(req[p].url, i) \in req[p].wrote}

CleanReturn(p) == Returned(p) /\ ~req[p].writeFailed

NoFacetForEmptyMetadata ==
  \A p \in Procs :
    (/\ req[p].content.topics = <<>>
     /\ req[p].content.keyPoints = <<>>
     /\ req[p].content.sentiment = <<>>
     /\ req[p].content.entities = <<>>) =>
      /\ FacetsWritten(p) = {}
      /\ \A k \in req[p].wrote : k[2] = "main"
      /\ req[p].pc \notin {"f_embed", "f_upsert"}

\* C16 witness: a call with all four facets empty returned having written
\* its two main chunks and nothing else.
EmptyMetadataStoredMainOnly ==
  \E p \in Procs :
    /\ CleanReturn(p)
    /\ req[p].content.mainText = TextSentences
    /\ ~HasMetadata(req[p].content)
    /\ req[p].wrote = {MainKey(req[p].url, 0), MainKey(req[p].url, 1)}
    /\ KeysUnder(req[p].url) = req[p].wrote

\* The text a request at an embedding step passes to getEmbedding, and the
\* step that follows.
EmbedText(r) ==
  CASE r.pc = "s_embed" -> Chunks(r.content)[r.i + 1]
    [] r.pc = "f_embed" -> ItemText(r.content, r.i)
    [] r.pc = "q_embed" -> r.question

EmbedNext(r) ==
  CASE r.pc = "s_embed" -> "s_upsert"
    [] r.pc = "f_embed" -> "f_upsert"
    [] r.pc = "q_embed" -> "q_query"

\* C17: the embedding operation never raises: for blank text it returns
\* the all-zero vector of 768 entries without calling the service, and
\* when the call fails, answers a non-success status or answers without
\* embedding values, it returns that same vector.
EmbeddingNeverRaises ==
  [][\A p \in Procs :
       (/\ req[p].pc \in {"s_embed", "f_embed", "q_embed"}
        /\ req'[p].pc # req[p].pc) =>
         LET text == EmbedText(req[p])
             r == req'[p]
         IN /\ r.pc = EmbedNext(req[p])
            /\ r.raised = "none"
            /\ IsBlank(text) =>
                 /\ r.reply.kind = "not_called"
                 /\ r.did = req[p].did
                 /\ r.emb = [len |-> 768, zero |-> TRUE]
            /\ ~IsBlank(text) => r.reply.kind # "not_called"
            /\ r.reply.kind \in EmbeddingFailures =>
                 r.emb = [len |-> 768, zero |-> TRUE]]_vars

\* C17 witness: a blank question was embedded without a service call and a
\* chunk whose service call answered a non-success status has the zero
\* vector.
ZeroVectorForBlankAndFailure ==
  \E p, q \in Procs :
    /\ req[p].pc = "q_query"
    /\ IsBlank(req[p].question)
    /\ req[p].reply.kind = "not_called"
    /\ req[p].emb = ZeroVector
    /\ req[q].pc = "s_upsert"
    /\ req[q].reply.kind = "http_error"
    /\ req[q].emb = ZeroVector

\* C18: a query that the backend answers on a ready index holding no
\* record returns an empty sequence and raises nothing, also when the
\* answer carries no matches field.
EmptyIndexQueryReturnsEmpty ==
  [][\A p \in Procs :
       (/\ req[p].pc = "q_query"
        /\ req'[p].pc # req[p].pc
        /\ indexState = "ready"
        /\ DOMAIN store = {}
        /\ req'[p].qreply # "failed") =>
         /\ req'[p].retrieved = "zero"
         /\ req'[p].results = <<>>
         /\ req'[p].response = "refusal"
         /\ req'[p].raised = "none"]_vars

\* C18 witness: a query on the empty index was answered without a matches
\* field and returned no results.
EmptyIndexNoMatchesField ==
  \E p \in Procs :
    /\ req[p].qreply = "no_field"
    /\ req[p].retrieved = "zero"
    /\ req[p].response = "refusal"
    /\ indexState = "ready"
    /\ DOMAIN store = {}

\* C19: within one call of storeContent the writes are sequential and
\* ordered: an upsert follows its record's embedding, chunk i is embedded
\* when chunks 0..i-1 are written, facets are written after all main
\* chunks, and at every moment the main ordinals the call has written are
\* a prefix 0..k-1 of the chunk sequence.
SequentialOrderedWrites ==
  \A p \in Procs :
    LET r == req[p] IN
    /\ r.wrote \subseteq ContentKeys(r.url, r.content)
    /\ \E k \in 0..Len(Chunks(r.content)) : MainWritten(p) = 0..(k - 1)
    /\ r.pc \in {"s_embed", "s_upsert"} =>
         /\ MainWritten(p) = 0..(r.i - 1)
         /\ FacetsWritten(p) = {}
    /\ r.pc \in {"f_embed", "f_upsert"} =>
         FacetsWritten(p) \subseteq 1..(r.i - 1)
    /\ FacetsWritten(p) # {} \/ r.pc \in {"f_embed", "f_upsert"} =>
         MainWritten(p) = MainOrdinals(r.content)
    /\ r.pc = "s_upsert" =>
         r.emb = getEmbedding(Chunks(r.content)[r.i + 1], r.reply)
    /\ r.pc = "f_upsert" =>
         r.emb = getEmbedding(ItemText(r.content, r.i), r.reply)

\* C19 witness: a call of two chunks was aborted by a failed upsert after
\* it had written its first chunk.
AbortedAfterFirstChunk ==
  \E p \in Procs :
    /\ Returned(p)
    /\ req[p].writeFailed
    /\ Len(Chunks(req[p].content)) = 2
    /\ req[p].wrote = {MainKey(req[p].url, 0)}

\* What the record of content c under key k holds, its vector left aside.
FacetIndex(k) == CHOOSE j \in 1..4 : Sections[j] = k[2]

RecordOf(c, k) ==
  IF k[2] = "main"
  THEN [title |-> c.title, type |-> "content", text |-> Chunks(c)[k[3] + 1]]
  ELSE [title |-> c.title, type |-> "metadata",
        text |-> ItemText(c, FacetIndex(k))]

\* The records under u after storeContent(u, a) and then storeContent(u, b)
\* on an index holding nothing under u.
OneAfterTheOther(u, a, b) ==
  [k \in ContentKeys(u, a) \cup ContentKeys(u, b) |->
     IF k \in ContentKeys(u, b) THEN RecordOf(b, k) ELSE RecordOf(a, k)]

StoredUnder(u) ==
  [k \in KeysUnder(u) |->
     [title |-> store[k].title, type |-> store[k].type,
      text |-> store[k].text]]

\* C20: when two calls of storeContent for one sourceId with different
\* contents ran concurrently and both returned without a failure, the
\* records under the sourceId are those left by running the two calls one
\* after the other in one of the two orders.
ConcurrentIngestionSerializable ==
  \A p, q \in Procs :
    (/\ p # q
     /\ CleanReturn(p) /\ CleanReturn(q)
     /\ req[p].overlapped /\ req[q].overlapped
     /\ req[p].url = req[q].url
     /\ req[p].content # req[q].content) =>
      StoredUnder(req[p].url) \in
        {OneAfterTheOther(req[p].url, req[p].content, req[q].content),
         OneAfterTheOther(req[p].url, req[q].content, req[p].content)}

====
